---- MODULE Spec2Model ----
(***************************************************************************)
(* Listing engine of cryptomath-api: the filtered, sorted and paginated    *)
(* lists of articles and tags (models/article.js, models/tag.js), the      *)
(* statements they issue and the setters that fold the raw rows into       *)
(* entities, and the articles controller that builds a list per request.   *)
(***************************************************************************)
EXTENDS Integers, Sequences, FiniteSets, TLC

VARIABLES
    db,       \* the stored data the statements read
    input,    \* what the caller handed to the constructor
    list,     \* the list instance: filters, sorts, limit, offset, search, data, total
    pc,       \* where setData() of the list stands
    issued,   \* the statements handed to db.query so far, in order
    raised,   \* the error db.query rejected with in the running call, if any
    outcomes, \* how each call of setData() settled, and what the list held then
    raw,      \* the raw rows last handed to the data setter
    orders,   \* the last value read from the order getter
    clauses   \* the last values read from the where and having getters

vars == <<db, input, list, pc, issued, raised, outcomes, raw, orders, clauses>>

----------------------------------------------------------------------------
(* Bounds of the model *)

\* articles in the store
MaxArticles == 2
\* hubs in the store, and tags in the store
MaxAssoc == 2
\* rows of ArticlesHubs, ArticlesTags, ArticlesAnswers and ArticlesVotes beyond
\* the one hub and the one tag every article has
MaxExtra == 3
\* sort fields a caller lists
MaxSorts == 2
\* filters a caller sets
MaxFilters == 1
\* raw rows handed to a data setter directly
MaxRows == 3
\* calls of setData() on one list instance
MaxCalls == 2
\* filters a caller sets when the clause getters are read on their own
MaxClauses == 2

----------------------------------------------------------------------------
(* Values *)

\* An optional value is a sequence of length 0 (undefined, false) or 1.
None == <<>>

Some(v) == <<v>>

IsSet(o) == Len(o) > 0

Val(o) == o[1]

Range(s) == {s[i] : i \in DOMAIN s}

\* ids are autoIncrement integers from 1; 0 stands for a null id of a row
NoId == 0

Digits == <<"0", "1", "2", "3", "4", "5", "6", "7", "8", "9">>

IsDigit(c) == \E d \in DOMAIN Digits : Digits[d] = c

DigitVal(c) == (CHOOSE d \in DOMAIN Digits : Digits[d] = c) - 1

\* the text a bigint column comes back as: COUNT and SUM reach the setter as strings
RECURSIVE NatText(_)
NatText(n) == IF n < 10 THEN <<Digits[n + 1]>> ELSE NatText(n \div 10) \o <<Digits[(n % 10) + 1]>>

IntText(n) == IF n < 0 THEN <<"-">> \o NatText(0 - n) ELSE NatText(n)

RECURSIVE DigitsValue(_, _)
DigitsValue(s, acc) ==
    IF s = <<>> \/ ~IsDigit(Head(s)) THEN acc
    ELSE DigitsValue(Tail(s), 10 * acc + DigitVal(Head(s)))

RECURSIVE SkipBlanks(_)
SkipBlanks(s) == IF s # <<>> /\ Head(s) = " " THEN SkipBlanks(Tail(s)) ELSE s

\* parseInt of a string given as its characters: leading blanks, a sign, then the
\* longest run of digits; None is NaN
ParseInt(text) ==
    LET s == SkipBlanks(text)
        neg == s # <<>> /\ Head(s) = "-"
        body == IF s # <<>> /\ Head(s) \in {"-", "+"} THEN Tail(s) ELSE s
    IN  IF body = <<>> \/ ~IsDigit(Head(body)) THEN None
        ELSE Some(IF neg THEN 0 - DigitsValue(body, 0) ELSE DigitsValue(body, 0))

----------------------------------------------------------------------------
(* The fields of the two lists *)

ArticlesSortable == <<"title", "author", "answers", "votes", "createdAt">>

TagsSortable == <<"name", "articles">>

ArticlesFilterable == {"id", "title", "author", "hubs", "tags", "answers", "votes", "createdAt"}

TagsFilterable == {"id", "name", "hub", "articles"}

Directions == {"ASC", "DESC"}

ArticlesCols ==
    [id |-> "Article.id", title |-> "Article.title", createdAt |-> "Article.createdAt",
     author |-> "Article.author", tsv |-> "Article.tsv",
     userId |-> "User.id", userDisplayName |-> "User.displayName",
     hubId |-> "Hub.id", tagId |-> "Tag.id",
     count |-> "COUNT(DISTINCT(Article.id))",
     answers |-> "COUNT(DISTINCT(ArticleAnswer.id))",
     votes |-> "COALESCE(SUM(ArticleVote.vote), 0)"]

TagsCols ==
    [id |-> "Tag.id", name |-> "Tag.name", hub |-> "Tag.hub", tsv |-> "Tag.tsv",
     articles |-> "COUNT(DISTINCT(Article.id))"]

RankCol == "rank"

\* the sorts object of the caller: its keys in the order the caller wrote them
SortsMap(fields, sortsIn) ==
    [f \in fields |->
        IF \E i \in DOMAIN sortsIn : sortsIn[i][1] = f
        THEN (CHOOSE p \in Range(sortsIn) : p[1] = f)[2]
        ELSE ""]

\* the filters object of the caller: a filter per field, or none
FiltersMap(fields, filtersIn) ==
    [f \in fields |-> IF f \in DOMAIN filtersIn THEN Some(filtersIn[f]) ELSE None]

\* new FilteredList({fields, filters, sorts, limit, offset, search})
FilteredList(kind, filterable, sortable, in) ==
    [kind |-> kind,
     filters |-> FiltersMap(filterable, in.filters),
     sorts |-> SortsMap(Range(sortable), in.sorts),
     limit |-> in.limit,
     offset |-> in.offset,
     search |-> in.search,
     data |-> <<>>,
     total |-> None]

NewArticlesList(in) == FilteredList("Articles", ArticlesFilterable, ArticlesSortable, in)

NewTagsList(in) == FilteredList("Tags", TagsFilterable, TagsSortable, in)

NoList == [kind |-> "none"]

NoSearch == [search |-> None]

----------------------------------------------------------------------------
(* The order getters *)

Ord(column, direction) == [column |-> column, direction |-> direction]

OrdIf(dir, column) == IF dir # "" THEN <<Ord(column, dir)>> ELSE <<>>

\* prepareOrder(orders): the ORDER BY keys, in the order of the descriptors
PrepareOrder(descs) == [i \in DOMAIN descs |-> <<descs[i].column, descs[i].direction>>]

\* the default dimension only when the caller sorts by nothing
ArticlesOrdersDefaultWhenEmpty(l) ==
    OrdIf(l.sorts["title"], ArticlesCols.title)
    \o OrdIf(l.sorts["author"], ArticlesCols.userDisplayName)
    \o OrdIf(l.sorts["answers"], ArticlesCols.answers)
    \o OrdIf(l.sorts["votes"], ArticlesCols.votes)
    \o (IF l.sorts["createdAt"] # ""
        THEN <<Ord(ArticlesCols.createdAt, l.sorts["createdAt"])>>
        ELSE IF \A f \in DOMAIN l.sorts : l.sorts[f] = ""
             THEN <<Ord(ArticlesCols.createdAt, "DESC")>>
             ELSE <<>>)
    \o (IF IsSet(l.search) THEN <<Ord(RankCol, "DESC")>> ELSE <<>>)

\* the votes pushed before the title
ArticlesOrdersVotesFirst(l) ==
    OrdIf(l.sorts["votes"], ArticlesCols.votes)
    \o OrdIf(l.sorts["title"], ArticlesCols.title)
    \o OrdIf(l.sorts["author"], ArticlesCols.userDisplayName)
    \o OrdIf(l.sorts["answers"], ArticlesCols.answers)
    \o (IF l.sorts["createdAt"] # ""
        THEN <<Ord(ArticlesCols.createdAt, l.sorts["createdAt"])>>
        ELSE <<Ord(ArticlesCols.createdAt, "DESC")>>)
    \o (IF IsSet(l.search) THEN <<Ord(RankCol, "DESC")>> ELSE <<>>)

ArticlesOrders(l) ==
    OrdIf(l.sorts["title"], ArticlesCols.title)
    \o OrdIf(l.sorts["author"], ArticlesCols.userDisplayName)
    \o OrdIf(l.sorts["answers"], ArticlesCols.answers)
    \o OrdIf(l.sorts["votes"], ArticlesCols.votes)
    \o (IF l.sorts["createdAt"] # ""
        THEN <<Ord(ArticlesCols.createdAt, l.sorts["createdAt"])>>
        ELSE <<Ord(ArticlesCols.createdAt, "DESC")>>)
    \o (IF IsSet(l.search) THEN <<Ord(RankCol, "DESC")>> ELSE <<>>)

TagsOrders(l) ==
    OrdIf(l.sorts["name"], TagsCols.name)
    \o (IF l.sorts["articles"] # ""
        THEN <<Ord(TagsCols.articles, l.sorts["articles"])>>
        ELSE <<Ord(TagsCols.articles, "DESC")>>)
    \o (IF IsSet(l.search) THEN <<Ord(RankCol, "DESC")>> ELSE <<>>)

OrderOf(l) == IF l.kind = "Articles" THEN ArticlesOrders(l) ELSE TagsOrders(l)

----------------------------------------------------------------------------
(* The stored data.  Articles, hubs and tags are numbered from 1.  A text   *)
(* column is held as its rank in the collation, a timestamp as a number of  *)
(* half days.  Every article has an author, hub 1 and tag 1 (the required   *)
(* associations); the rest of the junction rows, the answers and the votes  *)
(* are drawn row by row.                                                    *)

ScanOrders == {"article", "hub"}

VoteValues == {1}

SearchWords == {"foo"}

ArticleIds(d) == 1 .. d.n

TagIds == 1 .. MaxAssoc

HubIds == 1 .. MaxAssoc

\* Articles.title, the titles falling as the ids rise
TitleOf(a) == MaxArticles + 1 - a

\* Articles.author: two users write in turn
AuthorOf(a) == 1 + (a % 2)

\* Users.displayName
DisplayNameOf(u) == u

HubNameOf(h) == h

TagNameOf(t) == MaxAssoc + 1 - t

\* Tags.hub
TagHubOf(t) == t

\* the tsv column: the weight of each word in the row, 0 when the word is not in it
ArticleTsv(a) == [w \in SearchWords |-> (a + 1) % 3]

TagTsv(t) == [w \in SearchWords |-> t % 3]

BaseDb(n, days, scan) ==
    [n |-> n,
     createdAt |-> [a \in 1 .. n |-> 2 * days[a]],
     hubs |-> [a \in 1 .. n |-> {1}],
     tags |-> [a \in 1 .. n |-> {1}],
     answers |-> [a \in 1 .. n |-> 0],
     votes |-> [a \in 1 .. n |-> <<>>],
     scan |-> scan]

\* one more row in ArticlesHubs, ArticlesTags, ArticlesAnswers or ArticlesVotes
MoreRows(d) ==
    {[d EXCEPT !.hubs[a] = @ \cup {h}] : a \in ArticleIds(d), h \in HubIds}
    \cup {[d EXCEPT !.tags[a] = @ \cup {t}] : a \in ArticleIds(d), t \in TagIds}
    \cup {[d EXCEPT !.answers[a] = @ + 1] : a \in ArticleIds(d)}
    \cup {[d EXCEPT !.votes[a] = Append(@, v)] : a \in ArticleIds(d), v \in VoteValues}

RECURSIVE Grown(_, _)
Grown(ds, k) == IF k = 0 THEN ds ELSE Grown(ds \cup UNION {MoreRows(d) : d \in ds}, k - 1)

\* the days of the articles: article 1 on day 1, no article before its predecessor
DaysOf(n) ==
    {days \in [1 .. n -> 1 .. n] :
        /\ days[1] = 1
        /\ \A a \in 2 .. n : days[a] \in {days[a - 1], days[a - 1] + 1}}

Databases(extra) ==
    Grown(UNION {{BaseDb(n, days, scan) : days \in DaysOf(n), scan \in ScanOrders} :
                    n \in 1 .. MaxArticles}, extra)

----------------------------------------------------------------------------
(* The predicate compiler and the clause getters *)

Cond(column, filter) == [column |-> column, filter |-> filter]

CondIf(opt, column) == IF IsSet(opt) THEN <<Cond(column, Val(opt))>> ELSE <<>>

\* prepareWhere(wheres, join): the conditions joined by AND, TRUE when there is none;
\* with join set the clause is written after the ON condition of a join
PrepareWhere(conds, join) == [join |-> join, conds |-> conds]

NumericHolds(op, v, w) ==
    CASE op = ">" -> v > w
      [] op = ">=" -> v >= w
      [] op = "<" -> v < w
      [] op = "<=" -> v <= w
      [] OTHER -> v = w

\* one filter on the value of its column
Matches(f, v) ==
    CASE f.kind = "id" -> v = f.value
      [] f.kind = "ids" -> v \in f.values
      [] f.kind = "text" -> v \in f.like
      [] f.kind = "numeric" -> NumericHolds(f.op, v, f.value)
      [] f.kind = "date" -> f.from <= v /\ v <= f.to
      [] f.kind = "tsMatch" -> v[f.operation] > 0

TsQuery(l) == Val(l.search)

TsCond(l, column) ==
    IF IsSet(l.search)
    THEN <<Cond(column, [kind |-> "tsMatch", operation |-> TsQuery(l)])>>
    ELSE <<>>

\* the votes filter pushed onto wheres
ArticlesWheresWithVotes(l) ==
    CondIf(l.filters["id"], ArticlesCols.id)
    \o CondIf(l.filters["title"], ArticlesCols.title)
    \o CondIf(l.filters["createdAt"], "DATE(Article.createdAt)")
    \o CondIf(l.filters["votes"], ArticlesCols.votes)
    \o TsCond(l, ArticlesCols.tsv)

ArticlesWheres(l) ==
    CondIf(l.filters["id"], ArticlesCols.id)
    \o CondIf(l.filters["title"], ArticlesCols.title)
    \o CondIf(l.filters["createdAt"], "DATE(Article.createdAt)")
    \o TsCond(l, ArticlesCols.tsv)

ArticlesWhere(l) == PrepareWhere(ArticlesWheres(l), FALSE)

UserWhere(l) == PrepareWhere(CondIf(l.filters["author"], ArticlesCols.userId), TRUE)

HubWhere(l) == PrepareWhere(CondIf(l.filters["hubs"], ArticlesCols.hubId), TRUE)

TagWhere(l) == PrepareWhere(CondIf(l.filters["tags"], ArticlesCols.tagId), TRUE)

ArticlesHavings(l) ==
    CondIf(l.filters["answers"], ArticlesCols.answers)
    \o CondIf(l.filters["votes"], ArticlesCols.votes)

ArticlesHaving(l) == PrepareWhere(ArticlesHavings(l), FALSE)

TagsWheres(l) ==
    CondIf(l.filters["id"], TagsCols.id)
    \o CondIf(l.filters["name"], TagsCols.name)
    \o CondIf(l.filters["hub"], TagsCols.hub)
    \o TsCond(l, TagsCols.tsv)

TagsWhere(l) == PrepareWhere(TagsWheres(l), FALSE)

TagsHavings(l) == CondIf(l.filters["articles"], TagsCols.articles)

TagsHaving(l) == PrepareWhere(TagsHavings(l), FALSE)

\* the descriptor lists behind the clause getters of a list, by getter
ClausesOf(l) ==
    IF l.kind = "Articles"
    THEN [kind |-> l.kind,
          where |-> ArticlesWhere(l).conds,
          userWhere |-> UserWhere(l).conds,
          hubWhere |-> HubWhere(l).conds,
          tagWhere |-> TagWhere(l).conds,
          having |-> ArticlesHaving(l).conds]
    ELSE [kind |-> l.kind,
          where |-> TagsWhere(l).conds,
          userWhere |-> <<>>,
          hubWhere |-> <<>>,
          tagWhere |-> <<>>,
          having |-> TagsHaving(l).conds]

----------------------------------------------------------------------------
(* What the store answers to the statements *)

\* the value of a column expression in a row
ColumnValue(r, column) ==
    CASE column = "Article.id" -> r.id
      [] column = "Article.title" -> r.title
      [] column = "Article.createdAt" -> r.createdAt
      [] column = "DATE(Article.createdAt)" -> r.createdAt \div 2
      [] column = "Article.tsv" -> r.tsv
      [] column = "User.id" -> r.userId
      [] column = "User.displayName" -> r.userDisplayName
      [] column = "Hub.id" -> r.hubId
      [] column = "Tag.id" -> IF "tagId" \in DOMAIN r THEN r.tagId ELSE r.id
      [] column = "COUNT(DISTINCT(ArticleAnswer.id))" -> r.answers
      [] column = "COALESCE(SUM(ArticleVote.vote), 0)" -> r.votes
      [] column = "Tag.name" -> r.name
      [] column = "Tag.hub" -> r.hub
      [] column = "Tag.tsv" -> r.tsv
      [] column = "COUNT(DISTINCT(Article.id))" -> r.articles
      [] column = "rank" -> r.rank

\* a WHERE, HAVING or ON ... AND clause on a row
Holds(clause, r) ==
    \A i \in DOMAIN clause.conds :
        Matches(clause.conds[i].filter, ColumnValue(r, clause.conds[i].column))

\* the rows a LEFT OUTER JOIN gives an article: its rows, or one row of nulls
AnswerIdsOf(d, a) == IF d.answers[a] = 0 THEN {NoId} ELSE 1 .. d.answers[a]

VoteIdsOf(d, a) == IF d.votes[a] = <<>> THEN {NoId} ELSE DOMAIN d.votes[a]

VoteAt(d, a, v) == IF v = NoId THEN 0 ELSE d.votes[a][v]

\* "Article" with its answers and votes joined to it
AnswerVoteRows(d, a) == {[answerId |-> n, voteId |-> v, vote |-> VoteAt(d, a, v)] :
                            n \in AnswerIdsOf(d, a), v \in VoteIdsOf(d, a)}

\* COUNT(DISTINCT("ArticleAnswer"."id")) over the rows of a group
CountAnswers(rows) == Cardinality({r.answerId : r \in rows} \ {NoId})

RECURSIVE SumVote(_)
SumVote(rows) ==
    IF rows = {} THEN 0
    ELSE LET r == CHOOSE x \in rows : TRUE IN r.vote + SumVote(rows \ {r})

\* COALESCE(SUM("ArticleVote"."vote"), 0) over the rows of a group
SumVotes(rows) == SumVote({r \in rows : r.voteId # NoId})

\* the columns of "Article" and of the "User" joined to it
ArticleRow(d, a) ==
    [id |-> a, title |-> TitleOf(a), createdAt |-> d.createdAt[a], tsv |-> ArticleTsv(a),
     userId |-> AuthorOf(a), userDisplayName |-> DisplayNameOf(AuthorOf(a))]

AssocRow(h, t) ==
    [hubId |-> h, hubName |-> HubNameOf(h), tagId |-> t, tagName |-> TagNameOf(t),
     tagHub |-> TagHubOf(t)]

\* FROM "Article" joined to its author, hubs and tags, the join clauses applied,
\* WHERE applied: the groups of the page statement, one per article, hub and tag
ArticleGroups(d, l) ==
    {g \in {ArticleRow(d, a) @@ AssocRow(h, t) : a \in ArticleIds(d), h \in HubIds, t \in TagIds} :
        /\ g.hubId \in d.hubs[g.id]
        /\ g.tagId \in d.tags[g.id]
        /\ Holds(UserWhere(l), g)
        /\ Holds(HubWhere(l), g)
        /\ Holds(TagWhere(l), g)
        /\ Holds(ArticlesWhere(l), g)}

\* the aggregates of one group
Aggregates(d, a) ==
    [answers |-> CountAnswers(AnswerVoteRows(d, a)), votes |-> SumVotes(AnswerVoteRows(d, a))]

RankOf(l, tsv) == IF IsSet(l.search) THEN tsv[TsQuery(l)] ELSE 0

\* the select list of the articles page statement
ArticleSelect(d, l, g) ==
    [id |-> g.id, title |-> g.title, createdAt |-> g.createdAt, rank |-> RankOf(l, g.tsv),
     userId |-> g.userId, userDisplayName |-> g.userDisplayName,
     hubId |-> g.hubId, hubName |-> g.hubName,
     tagId |-> g.tagId, tagName |-> g.tagName, tagHub |-> g.tagHub,
     answers |-> Aggregates(d, g.id).answers, votes |-> Aggregates(d, g.id).votes]

RECURSIVE LexLess(_, _)
LexLess(s, t) ==
    IF s = <<>> THEN FALSE
    ELSE IF Head(s) = Head(t) THEN LexLess(Tail(s), Tail(t)) ELSE Head(s) < Head(t)

\* the order in which the store hands out rows that tie on every ORDER BY key
ScanBefore(scan, kind, r, q) ==
    IF kind = "Articles"
    THEN IF scan = "article" THEN LexLess(<<r.id, r.hubId, r.tagId>>, <<q.id, q.hubId, q.tagId>>)
         ELSE LexLess(<<q.hubId, q.tagId, q.id>>, <<r.hubId, r.tagId, r.id>>)
    ELSE IF scan = "article" THEN r.id < q.id ELSE q.id < r.id

RECURSIVE OrderBefore(_, _, _, _, _)
OrderBefore(keys, scan, kind, r, q) ==
    IF keys = <<>> THEN ScanBefore(scan, kind, r, q)
    ELSE LET v == ColumnValue(r, Head(keys)[1])
             w == ColumnValue(q, Head(keys)[1])
         IN  IF v = w THEN OrderBefore(Tail(keys), scan, kind, r, q)
             ELSE IF Head(keys)[2] = "ASC" THEN v < w ELSE v > w

\* ORDER BY: the rows of a result set in sequence
Ordered(rows, keys, scan, kind) ==
    [i \in 1 .. Cardinality(rows) |->
        CHOOSE r \in rows : Cardinality({q \in rows : OrderBefore(keys, scan, kind, q, r)}) = i - 1]

Min(a, b) == IF a < b THEN a ELSE b

\* OFFSET offset LIMIT limit
Paged(rows, offset, limit) ==
    IF offset >= Len(rows) THEN <<>> ELSE SubSeq(rows, offset + 1, Min(Len(rows), offset + limit))

\* the row as the setter reads it: the aggregates are bigint columns, read as text
ArticleRaw(r) == [r EXCEPT !.answers = IntText(@), !.votes = IntText(@)]

\* the articles page statement
ArticlesPage(d, l) ==
    LET sel == {ArticleSelect(d, l, g) : g \in ArticleGroups(d, l)}
        kept == {r \in sel : Holds(ArticlesHaving(l), r)}
        page == Paged(Ordered(kept, PrepareOrder(ArticlesOrders(l)), d.scan, "Articles"),
                      l.offset, l.limit)
    IN  [i \in DOMAIN page |-> ArticleRaw(page[i])]

\* the subquery "ArticlesAnswerVote": the ids of the articles that pass HAVING
ArticlesAnswerVote(d, l) ==
    {a \in ArticleIds(d) : Holds(ArticlesHaving(l), Aggregates(d, a))}

\* the articles total statement
ArticlesTotal(d, l) ==
    LET ids == {g.id : g \in {x \in ArticleGroups(d, l) : x.id \in ArticlesAnswerVote(d, l)}}
    IN  <<[total |-> IntText(Cardinality(ids))]>>

\* FROM "Tag" INNER JOIN its articles: a tag without articles gives no row
TagJoinRowsInner(d, l) ==
    {r \in {[id |-> t, name |-> TagNameOf(t), hub |-> TagHubOf(t), tsv |-> TagTsv(t),
             articleId |-> a] : t \in TagIds, a \in ArticleIds(d)} :
        /\ r.id \in d.tags[r.articleId]
        /\ Holds(TagsWhere(l), r)}

\* FROM "Tag" LEFT OUTER JOIN its articles, WHERE applied
TagJoinRows(d, l) ==
    {r \in {[id |-> t, name |-> TagNameOf(t), hub |-> TagHubOf(t), tsv |-> TagTsv(t),
             articleId |-> a] : t \in TagIds, a \in ArticleIds(d) \cup {NoId}} :
        /\ IF r.articleId = NoId THEN \A a \in ArticleIds(d) : r.id \notin d.tags[a]
           ELSE r.id \in d.tags[r.articleId]
        /\ Holds(TagsWhere(l), r)}

\* GROUP BY "Tag"."id" with the select list of the tags page statement, HAVING applied
TagsGrouped(d, l) ==
    LET rows == TagJoinRows(d, l)
        sel == {[id |-> r.id, name |-> r.name, hub |-> r.hub, rank |-> RankOf(l, r.tsv),
                 articles |-> Cardinality({q.articleId : q \in {x \in rows : x.id = r.id}} \ {NoId})] :
                    r \in rows}
    IN  {r \in sel : Holds(TagsHaving(l), r)}

TagRaw(r) == [r EXCEPT !.articles = IntText(@)]

\* the tags page statement
TagsPage(d, l) ==
    LET page == Paged(Ordered(TagsGrouped(d, l), PrepareOrder(TagsOrders(l)), d.scan, "Tags"),
                      l.offset, l.limit)
    IN  [i \in DOMAIN page |-> TagRaw(page[i])]

\* the tags total statement
TagsTotal(d, l) ==
    <<[total |-> IntText(Cardinality({r.id : r \in TagsGrouped(d, l)}))]>>

----------------------------------------------------------------------------
(* The data setters *)

IndexOfId(seq, id) ==
    IF \E i \in DOMAIN seq : seq[i].id = id
    THEN CHOOSE i \in DOMAIN seq : seq[i].id = id /\ \A j \in 1 .. i - 1 : seq[j].id # id
    ELSE 0

HasId(seq, id) == \E i \in DOMAIN seq : seq[i].id = id

\* a push without the look for the id
PushAlways(seq, x) == Append(seq, x)

PushNew(seq, x) == IF HasId(seq, x.id) THEN seq ELSE Append(seq, x)

RowHub(r) == [id |-> r.hubId, name |-> r.hubName]

RowTag(r) == [id |-> r.tagId, name |-> r.tagName, hub |-> r.tagHub]

NewArticleObject(r) ==
    [id |-> r.id, title |-> r.title, createdAt |-> r.createdAt,
     author |-> [id |-> r.userId, displayName |-> r.userDisplayName],
     hubs |-> <<RowHub(r)>>,
     tags |-> <<RowTag(r)>>,
     answers |-> ParseInt(r.answers),
     votes |-> ParseInt(r.votes)]

\* a new article put before the others
FoldArticleNewFirst(articles, r) ==
    LET i == IndexOfId(articles, r.id)
    IN  IF i # 0
        THEN [articles EXCEPT ![i].hubs = PushNew(@, RowHub(r)),
                              ![i].tags = PushNew(@, RowTag(r))]
        ELSE <<NewArticleObject(r)>> \o articles

\* one turn of the loop of the articles setter
FoldArticle(articles, r) ==
    LET i == IndexOfId(articles, r.id)
    IN  IF i # 0
        THEN [articles EXCEPT ![i].hubs = PushNew(@, RowHub(r)),
                              ![i].tags = PushNew(@, RowTag(r))]
        ELSE Append(articles, NewArticleObject(r))

RECURSIVE FoldArticles(_, _)
FoldArticles(articles, rows) ==
    IF rows = <<>> THEN articles
    ELSE FoldArticles(FoldArticle(articles, Head(rows)), Tail(rows))

\* the new articles pushed onto the ones dataProxy holds
ArticlesDataKeepingOld(old, articlesRaw) == old \o FoldArticles(<<>>, articlesRaw)

\* set data(articlesRaw) of Articles: the value left in dataProxy
ArticlesData(old, articlesRaw) == FoldArticles(<<>>, articlesRaw)

TagObject(r) == [id |-> r.id, name |-> r.name, hub |-> r.hub, articles |-> ParseInt(r.articles)]

\* set data(tagsRaw) of Tags
TagsData(old, tagsRaw) == [i \in DOMAIN tagsRaw |-> TagObject(tagsRaw[i])]

SetData(l, rows) ==
    [l EXCEPT !.data = IF l.kind = "Articles" THEN ArticlesData(l.data, rows)
                       ELSE TagsData(l.data, rows)]

\* this.total = the result of the total statement
SetTotal(l, rows) == [l EXCEPT !.total = ParseInt(rows[1].total)]

PageRows(d, l) == IF l.kind = "Articles" THEN ArticlesPage(d, l) ELSE TagsPage(d, l)

TotalRows(d, l) == IF l.kind = "Articles" THEN ArticlesTotal(d, l) ELSE TagsTotal(d, l)

----------------------------------------------------------------------------
(* What callers ask for *)

\* const ARTICLES_LIMIT
ARTICLES_LIMIT == 10

Limits == {1, 2, ARTICLES_LIMIT}

Offsets == {0, 1}

Errors == {"E1", "E2"}

Fields(sorts) == {sorts[i][1] : i \in DOMAIN sorts}

\* the sorts objects with at most n keys, each key a sortable field
RECURSIVE SortLists(_, _)
SortLists(fields, n) ==
    IF n = 0 THEN {<<>>}
    ELSE LET shorter == SortLists(fields, n - 1)
         IN  shorter \cup {Append(s[1], <<s[2], s[3]>>) :
                            s \in {x \in shorter \X fields \X Directions : x[2] \notin Fields(x[1])}}

ArticleFilterChoices ==
    [id |-> {[kind |-> "id", value |-> a] : a \in 1 .. MaxArticles},
     title |-> {[kind |-> "text", like |-> {TitleOf(1)}]},
     author |-> {[kind |-> "id", value |-> 1]},
     hubs |-> {[kind |-> "ids", values |-> {h}] : h \in HubIds},
     tags |-> {[kind |-> "ids", values |-> {t}] : t \in TagIds \ {1}},
     answers |-> {[kind |-> "numeric", op |-> ">=", value |-> 1],
                  [kind |-> "numeric", op |-> "", value |-> 0]},
     votes |-> {[kind |-> "numeric", op |-> ">=", value |-> 2]},
     createdAt |-> {[kind |-> "date", from |-> 1, to |-> 1]}]

TagFilterChoices ==
    [id |-> {[kind |-> "id", value |-> 1]},
     name |-> {[kind |-> "text", like |-> {TagNameOf(1)}]},
     hub |-> {[kind |-> "id", value |-> 1]},
     articles |-> {[kind |-> "numeric", op |-> ">=", value |-> 1],
                   [kind |-> "numeric", op |-> "", value |-> 0]}]

\* the filters objects with at most n filters
RECURSIVE FilterSets(_, _)
FilterSets(choices, n) ==
    IF n = 0 THEN {<<>>}
    ELSE LET fewer == FilterSets(choices, n - 1)
         IN  fewer \cup UNION {{g @@ (f :> c) : c \in choices[f]} :
                                g \in fewer, f \in DOMAIN choices}

Request(kind, filters, sorts, limit, offset, search) ==
    [kind |-> kind, filters |-> filters, sorts |-> sorts, limit |-> limit, offset |-> offset,
     search |-> search]

Searches == {None} \cup {Some(w) : w \in SearchWords}

Sortable(kind) == IF kind = "Articles" THEN Range(ArticlesSortable) ELSE Range(TagsSortable)

FilterChoices(kind) == IF kind = "Articles" THEN ArticleFilterChoices ELSE TagFilterChoices

Kinds == {"Articles", "Tags"}

\* requests that filter and page, and requests that sort and search
Requests ==
    UNION {{Request(k, f, <<>>, lim, off, None) :
                f \in FilterSets(FilterChoices(k), MaxFilters), lim \in Limits, off \in Offsets}
           \cup {Request(k, <<>>, s, ARTICLES_LIMIT, 0, q) :
                s \in SortLists(Sortable(k), MaxSorts), q \in Searches} : k \in Kinds}

\* requests that only sort and search
OrderRequests ==
    UNION {{Request(k, <<>>, s, ARTICLES_LIMIT, 0, q) :
                s \in SortLists(Sortable(k), MaxSorts), q \in Searches} : k \in Kinds}

\* requests that only page
PlainRequests ==
    {Request(k, <<>>, <<>>, lim, off, None) : k \in Kinds, lim \in Limits, off \in Offsets}

\* requests that page, and requests that sort by one field and search
SortedRequests ==
    PlainRequests
    \cup UNION {{Request(k, <<>>, s, ARTICLES_LIMIT, 0, q) :
                    s \in SortLists(Sortable(k), 1), q \in Searches} : k \in Kinds}

NewList(in) == IF in.kind = "Articles" THEN NewArticlesList(in) ELSE NewTagsList(in)

----------------------------------------------------------------------------
(* The operations *)

Statement(call, kind) == [call |-> call, kind |-> kind]

\* throw new Error(error)
RethrowWrapped(error) == "Error"

\* catch (error) { throw error }
Rethrow(error) == error

Outcome(l, at, error) == [at |-> at, error |-> error, data |-> l.data, total |-> l.total]

\* new Articles(input), new Tags(input)
Construct(inputs) ==
    /\ pc = "none"
    /\ \E in \in inputs :
        /\ input' = in
        /\ list' = NewList(in)
    /\ pc' = "ready"
    /\ UNCHANGED <<db, issued, raised, outcomes, raw, orders, clauses>>

\* both statements handed to db.query at once
EnterBoth(maxCalls) ==
    /\ pc = "ready"
    /\ Len(outcomes) < maxCalls
    /\ issued' = issued \o <<Statement(Len(outcomes) + 1, "page"), Statement(Len(outcomes) + 1, "total")>>
    /\ raised' = None
    /\ pc' = "page"
    /\ UNCHANGED <<db, input, list, outcomes, raw, orders, clauses>>

\* setData() is entered and hands the page statement to db.query
Enter(maxCalls) ==
    /\ pc = "ready"
    /\ Len(outcomes) < maxCalls
    /\ issued' = Append(issued, Statement(Len(outcomes) + 1, "page"))
    /\ raised' = None
    /\ pc' = "page"
    /\ UNCHANGED <<db, input, list, outcomes, raw, orders, clauses>>

\* the page statement resolves: its rows go through the data setter, and the
\* total statement is handed to db.query
PageResolves ==
    /\ pc = "page"
    /\ raw' = PageRows(db, list)
    /\ list' = SetData(list, raw')
    /\ issued' = Append(issued, Statement(Len(outcomes) + 1, "total"))
    /\ pc' = "total"
    /\ UNCHANGED <<db, input, raised, outcomes, orders, clauses>>

\* the total statement resolves and setData() returns
TotalResolves ==
    /\ pc = "total"
    /\ list' = SetTotal(list, TotalRows(db, list))
    /\ outcomes' = Append(outcomes, Outcome(list', "", None))
    /\ pc' = "ready"
    /\ UNCHANGED <<db, input, issued, raised, raw, orders, clauses>>

\* data emptied before the error is thrown
RejectsClearing(at) ==
    /\ pc = at
    /\ list' = [list EXCEPT !.data = <<>>]
    /\ \E e \in Errors :
        /\ raised' = Some(e)
        /\ outcomes' = Append(outcomes, Outcome(list', at, Some(Rethrow(e))))
    /\ pc' = "ready"
    /\ UNCHANGED <<db, input, issued, raw, orders, clauses>>

\* the statement in flight rejects: setData() throws
Rejects(at) ==
    /\ pc = at
    /\ \E e \in Errors :
        /\ raised' = Some(e)
        /\ outcomes' = Append(outcomes, Outcome(list, at, Some(Rethrow(e))))
    /\ pc' = "ready"
    /\ UNCHANGED <<db, input, list, issued, raw, orders, clauses>>

NoOutcomes == <<>>

NoClauses == [kind |-> "none"]

InitWith(dbs) ==
    /\ db \in dbs
    /\ input = Request("none", <<>>, <<>>, ARTICLES_LIMIT, 0, None)
    /\ list = NoList
    /\ pc = "none"
    /\ issued = <<>>
    /\ raised = None
    /\ outcomes = NoOutcomes
    /\ raw = <<>>
    /\ orders = <<>>
    /\ clauses = NoClauses

OneArticleDb == BaseDb(1, <<1>>, "article")

(* One request against any store: a list is built and loaded once *)

Init == InitWith(Databases(MaxExtra))

NewRequest == Construct(Requests)

Load == Enter(1)

Next == NewRequest \/ Load \/ PageResolves \/ TotalResolves

Spec == Init /\ [][Next]_vars

(* A list loaded again and again, with statements that may fail *)

InitCalls == InitWith(Databases(1))

NewPlainRequest == Construct(PlainRequests)

Call == Enter(MaxCalls)

PageRejects == Rejects("page")

TotalRejects == Rejects("total")

NextCalls ==
    NewPlainRequest \/ Call \/ PageResolves \/ TotalResolves \/ PageRejects \/ TotalRejects

SpecCalls == InitCalls /\ [][NextCalls]_vars

(* A list that pages or sorts, loaded once *)

InitSorted == InitWith(Databases(1))

NewSortedRequest == Construct(SortedRequests)

NextSorted == NewSortedRequest \/ Load \/ PageResolves \/ TotalResolves

SpecSorted == InitSorted /\ [][NextSorted]_vars

(* The order getter read on its own *)

InitOrder == InitWith({OneArticleDb})

NewOrderRequest == Construct(OrderRequests)

ReadOrder ==
    /\ pc = "ready"
    /\ orders = <<>>
    /\ orders' = OrderOf(list)
    /\ UNCHANGED <<db, input, list, pc, issued, raised, outcomes, raw, clauses>>

NextOrder == NewOrderRequest \/ ReadOrder

SpecOrder == InitOrder /\ [][NextOrder]_vars

(* The where and having getters read on their own *)

\* requests that set up to MaxClauses filters, and search
ClauseRequests ==
    UNION {{Request(k, f, <<>>, ARTICLES_LIMIT, 0, q) :
                f \in FilterSets(FilterChoices(k), MaxClauses), q \in Searches} : k \in Kinds}

InitClauses == InitWith({OneArticleDb})

NewClauseRequest == Construct(ClauseRequests)

ReadClauses ==
    /\ pc = "ready"
    /\ clauses = NoClauses
    /\ clauses' = ClausesOf(list)
    /\ UNCHANGED <<db, input, list, pc, issued, raised, outcomes, raw, orders>>

NextClauses == NewClauseRequest \/ ReadClauses

SpecClauses == InitClauses /\ [][NextClauses]_vars

(* The articles setter handed raw rows directly *)

\* the articles the rows handed to the setter belong to
RawArticleIds == {1, 2}

\* rows as the page statement shapes them, their hub and tag ids null or not
RawArticleRows ==
    {[ArticleRaw(ArticleSelect(OneArticleDb, NoSearch, ArticleRow(OneArticleDb, 1) @@ AssocRow(h, t)))
        EXCEPT !.id = a, !.title = TitleOf(a)] :
        a \in RawArticleIds, h \in {NoId} \cup HubIds, t \in {NoId} \cup TagIds}

InitSetter == InitWith({OneArticleDb})

NewArticles == Construct({Request("Articles", <<>>, <<>>, ARTICLES_LIMIT, 0, None)})

\* the setter is handed the rows it was handed before and one more
AssignData ==
    /\ pc = "ready"
    /\ Len(raw) < MaxRows
    /\ \E r \in RawArticleRows :
        /\ raw' = Append(raw, r)
        /\ list' = SetData(list, raw')
    /\ UNCHANGED <<db, input, pc, issued, raised, outcomes, orders, clauses>>

NextSetter == NewArticles \/ AssignData

SpecSetter == InitSetter /\ [][NextSetter]_vars

(* The articles controller: a list built from the body of a request *)

\* what a body holds under limit or offset: nothing, or a text
BodyTexts == {<<"0">>, <<"2">>, <<"1", "0">>, <<"-", "1">>, <<"a">>, <<"2", "x">>}

BodyValues == {None} \cup {Some(t) : t \in BodyTexts}

Bodies == {[kind |-> "Articles", filters |-> <<>>, sorts |-> <<>>, limit |-> lim, offset |-> off,
            search |-> None] : lim \in BodyValues, off \in BodyValues}

\* parseInt(req.body.x): NaN when the body has no x
ParseIntOf(o) == IF IsSet(o) THEN ParseInt(Val(o)) ELSE None

\* parsed || dflt: NaN and 0 are falsy
OrElse(parsed, dflt) == IF IsSet(parsed) /\ Val(parsed) # 0 THEN Val(parsed) ELSE dflt

\* const data = {limit, offset, filters, sorts}
DataOf(body) ==
    [kind |-> "Articles",
     limit |-> OrElse(ParseIntOf(body.limit), ARTICLES_LIMIT),
     offset |-> OrElse(ParseIntOf(body.offset), 0),
     filters |-> body.filters,
     sorts |-> body.sorts,
     search |-> None]

\* all(req, res) up to new Articles(data)
All ==
    /\ pc = "none"
    /\ \E body \in Bodies :
        /\ input' = body
        /\ list' = NewArticlesList(DataOf(body))
    /\ pc' = "ready"
    /\ UNCHANGED <<db, issued, raised, outcomes, raw, orders, clauses>>

\* the store takes no negative LIMIT and no negative OFFSET
Accepts(l) == l.limit >= 0 /\ l.offset >= 0

PageAccepted == pc = "page" /\ Accepts(list) /\ PageResolves

PageRefused == pc = "page" /\ ~Accepts(list) /\ PageRejects

InitController == InitWith(Databases(0))

NextController == All \/ Load \/ PageAccepted \/ PageRefused \/ TotalResolves

SpecController == InitController /\ [][NextController]_vars

----------------------------------------------------------------------------
(* What the claims speak of *)

Ids(seq) == {seq[i].id : i \in DOMAIN seq}

NoTwoSameId(seq) == \A i, j \in DOMAIN seq : seq[i].id = seq[j].id => i = j

RowsOf(rows, id) == {k \in DOMAIN rows : rows[k].id = id}

FirstRowOf(rows, id) == CHOOSE k \in RowsOf(rows, id) : \A m \in RowsOf(rows, id) : k <= m

RECURSIVE SeqSum(_)
SeqSum(s) == IF s = <<>> THEN 0 ELSE Head(s) + SeqSum(Tail(s))

\* the aggregates of an article as the tables hold them
AnswersOf(d, a) == d.answers[a]

VotesOf(d, a) == SeqSum(d.votes[a])

ArticlesOfTag(d, t) == {a \in ArticleIds(d) : t \in d.tags[a]}

Active(l, field) == IsSet(l.filters[field])

Passes(l, field, v) == Active(l, field) => Matches(Val(l.filters[field]), v)

PassesSome(l, field, vs) == Active(l, field) => \E v \in vs : Matches(Val(l.filters[field]), v)

PassesSearch(l, tsv) == IsSet(l.search) => tsv[Val(l.search)] > 0

\* an article meets every filter set on it before aggregation
ArticleMeetsWhere(d, l, a) ==
    /\ Passes(l, "id", a)
    /\ Passes(l, "title", TitleOf(a))
    /\ Passes(l, "createdAt", d.createdAt[a] \div 2)
    /\ Passes(l, "author", AuthorOf(a))
    /\ PassesSome(l, "hubs", d.hubs[a])
    /\ PassesSome(l, "tags", d.tags[a])
    /\ PassesSearch(l, ArticleTsv(a))

\* an article meets every filter set on its aggregates
ArticleMeetsHaving(d, l, a) ==
    /\ Passes(l, "answers", AnswersOf(d, a))
    /\ Passes(l, "votes", VotesOf(d, a))

TagMeets(d, l, t) ==
    /\ Passes(l, "id", t)
    /\ Passes(l, "name", TagNameOf(t))
    /\ Passes(l, "hub", TagHubOf(t))
    /\ PassesSearch(l, TagTsv(t))
    /\ Passes(l, "articles", Cardinality(ArticlesOfTag(d, t)))

Matching(d, l) ==
    IF l.kind = "Articles"
    THEN {a \in ArticleIds(d) : ArticleMeetsWhere(d, l, a) /\ ArticleMeetsHaving(d, l, a)}
    ELSE {t \in TagIds : TagMeets(d, l, t)}

\* setData() has returned once, and nothing runs
Loaded == pc = "ready" /\ Len(outcomes) > 0 /\ outcomes[Len(outcomes)].error = None

LoadedArticles == Loaded /\ list.kind = "Articles"

Unpaged == list.limit = ARTICLES_LIMIT /\ list.offset = 0

Assigned == list.kind = "Articles" /\ raw # <<>>

----------------------------------------------------------------------------
(* C1: whatever raw rows the articles setter is handed, data holds one entity  *)
(* per article id in the rows, and the hubs and the tags of an entity hold no  *)
(* id twice and as many elements as the rows of the article hold different     *)
(* hub ids and tag ids (a null id counting as one value).                      *)
C1_OneEntityPerIdDedupedHubsTags ==
    Assigned =>
        /\ Len(list.data) = Cardinality(Ids(raw))
        /\ Ids(list.data) = Ids(raw)
        /\ \A i \in DOMAIN list.data :
            LET e == list.data[i]
                rows == RowsOf(raw, e.id)
            IN  /\ NoTwoSameId(e.hubs)
                /\ NoTwoSameId(e.tags)
                /\ Len(e.hubs) = Cardinality({raw[k].hubId : k \in rows})
                /\ Len(e.tags) = Cardinality({raw[k].tagId : k \in rows})

\* three rows of one article, two of them with the same hub, folded into one entity of two hubs
C1_Witness ==
    /\ Assigned
    /\ Len(raw) = MaxRows
    /\ Cardinality(Ids(raw)) = 1
    /\ raw[1].hubId = raw[MaxRows].hubId
    /\ Len(list.data) = 1
    /\ Len(list.data[1].hubs) = 2

(* C2: every article entity of a loaded list has answers equal to the number  *)
(* of answer records of the article and votes equal to the sum of its vote     *)
(* values, whatever the fan-out of the join.                                   *)
C2_AggregatesAreTheArticles ==
    LoadedArticles =>
        \A i \in DOMAIN list.data :
            /\ list.data[i].answers = Some(AnswersOf(db, list.data[i].id))
            /\ list.data[i].votes = Some(VotesOf(db, list.data[i].id))

(* C3: after a load, total is the number of articles (tags) that meet every    *)
(* filter set before aggregation and every filter set on an aggregate.         *)
C3_TotalCountsMatchingRoots ==
    Loaded => list.total = Some(Cardinality(Matching(db, list)))

(* C4: with the hubs or the tags filter set and the whole result on one page,  *)
(* every article that has a listed hub (tag) is in data once, with all the     *)
(* hubs and all the tags the article belongs to.                               *)
C4_FilteredArticleKeepsAllHubsTags ==
    (LoadedArticles /\ Unpaged /\ (Active(list, "hubs") \/ Active(list, "tags"))) =>
        \A a \in Matching(db, list) :
            /\ Cardinality({i \in DOMAIN list.data : list.data[i].id = a}) = 1
            /\ \A i \in DOMAIN list.data :
                list.data[i].id = a =>
                    /\ Ids(list.data[i].hubs) = db.hubs[a]
                    /\ Ids(list.data[i].tags) = db.tags[a]

(* C5: every entity in data of a loaded articles list meets every filter set   *)
(* on an aggregate, taken on the answers and the votes the article has, and    *)
(* total counts no article that fails one.                                     *)
C5_DataMeetsHaving ==
    LoadedArticles =>
        /\ \A i \in DOMAIN list.data : ArticleMeetsHaving(db, list, list.data[i].id)
        /\ Val(list.total) <= Cardinality({a \in ArticleIds(db) : ArticleMeetsHaving(db, list, a)})

(* C6: the entities in data stand in the order in which their ids first occur  *)
(* in the rows the page statement returned.                                    *)
C6_DataInFirstAppearanceOrder ==
    Loaded =>
        \A i, j \in DOMAIN list.data :
            i < j => FirstRowOf(raw, list.data[i].id) < FirstRowOf(raw, list.data[j].id)

\* rows of the first article lie on both sides of a row of the second
C6_Witness ==
    /\ LoadedArticles
    /\ Len(list.data) = 2
    /\ \E i, j, k \in DOMAIN raw :
        /\ i < j /\ j < k
        /\ raw[i].id = raw[k].id
        /\ raw[j].id # raw[i].id

----------------------------------------------------------------------------
DefaultColumn(kind) == IF kind = "Articles" THEN ArticlesCols.createdAt ELSE TagsCols.articles

DefaultField(kind) == IF kind = "Articles" THEN "createdAt" ELSE "articles"

OrderRead == orders # <<>>

\* the descriptors but for the rank that search appends
Unranked(descs) ==
    IF descs # <<>> /\ descs[Len(descs)].column = RankCol THEN SubSeq(descs, 1, Len(descs) - 1)
    ELSE descs

(* C7: when the sorts of the caller leave out the default dimension, the       *)
(* descriptors of the order getter end with it in direction DESC; when search  *)
(* is set the rank in direction DESC is the last descriptor, after those.      *)
C7_DefaultThenRankLast ==
    OrderRead =>
        LET kept == Unranked(orders)
        IN  /\ DefaultField(input.kind) \notin Fields(input.sorts) =>
                    kept[Len(kept)] = Ord(DefaultColumn(input.kind), "DESC")
            /\ IsSet(input.search) =>
                    /\ orders[Len(orders)] = Ord(RankCol, "DESC")
                    /\ \A i \in 1 .. Len(orders) - 1 : orders[i].column # RankCol
                    /\ Len(kept) = Len(orders) - 1
            /\ ~IsSet(input.search) => kept = orders

\* a caller sorts by something else than the default dimension, and searches
C7_Witness ==
    /\ OrderRead
    /\ input.sorts # <<>>
    /\ DefaultField(input.kind) \notin Fields(input.sorts)
    /\ IsSet(input.search)
    /\ Len(orders) = Len(input.sorts) + 2

ColumnOfField(kind, f) ==
    IF kind = "Tags" THEN TagsCols[f]
    ELSE IF f = "author" THEN ArticlesCols.userDisplayName ELSE ArticlesCols[f]

PlaceOf(descs, column) == CHOOSE i \in DOMAIN descs : descs[i].column = column

PlaceOfField(kind, descs, f) == PlaceOf(descs, ColumnOfField(kind, f))

FieldRank(kind, f) ==
    LET fields == IF kind = "Articles" THEN ArticlesSortable ELSE TagsSortable
    IN  CHOOSE i \in DOMAIN fields : fields[i] = f

(* C8 as claimed: the sort keys follow the order in which the caller listed    *)
(* the sort fields, the first one listed being the primary key.                *)
C8_KeysFollowCallerOrder ==
    OrderRead =>
        \A i, j \in DOMAIN input.sorts :
            i < j => PlaceOfField(input.kind, orders, input.sorts[i][1])
                        < PlaceOfField(input.kind, orders, input.sorts[j][1])

(* C8 as amended: the sort keys stand in the order of the getter, which is     *)
(* title, author, answers, votes, createdAt for articles and name, articles    *)
(* for tags, in whatever order the caller listed the fields; each key has the  *)
(* direction the caller gave it.                                               *)
C8_KeysFollowGetterOrder ==
    OrderRead =>
        /\ \A i, j \in DOMAIN input.sorts :
            FieldRank(input.kind, input.sorts[i][1]) < FieldRank(input.kind, input.sorts[j][1])
                => PlaceOfField(input.kind, orders, input.sorts[i][1])
                    < PlaceOfField(input.kind, orders, input.sorts[j][1])
        /\ \A i \in DOMAIN input.sorts :
            orders[PlaceOfField(input.kind, orders, input.sorts[i][1])].direction = input.sorts[i][2]

\* the caller lists votes before title, and the getter puts title first
C8_Witness ==
    /\ OrderRead
    /\ input.kind = "Articles"
    /\ Len(input.sorts) = 2
    /\ input.sorts[1][1] = "votes"
    /\ input.sorts[2][1] = "title"
    /\ orders[1].column = ArticlesCols.title
    /\ orders[2].column = ArticlesCols.votes

----------------------------------------------------------------------------
Ok(o) == o.error = None

(* C9: two calls of setData() on one list, with the same input and the same    *)
(* stored data, leave the same data and the same total: the second replaces    *)
(* what the first left, and appends nothing to it.                             *)
C9_SecondLoadLeavesTheSame ==
    \A i, j \in DOMAIN outcomes :
        (Ok(outcomes[i]) /\ Ok(outcomes[j])) =>
            /\ outcomes[i].data = outcomes[j].data
            /\ outcomes[i].total = outcomes[j].total

\* two loads in a row of a list that holds entities
C9_Witness ==
    /\ Len(outcomes) = 2
    /\ Ok(outcomes[1])
    /\ Ok(outcomes[2])
    /\ Len(outcomes[2].data) >= 2

StatementsOf(call) == {k \in DOMAIN issued : issued[k].call = call}

(* C10: when a statement of setData() rejects, setData() throws that very      *)
(* error, no statement is handed to db.query a second time, and after a        *)
(* rejected page statement the call hands no total statement to db.query.      *)
C10_RejectionPropagatesNoRetry ==
    /\ (pc = "ready" /\ IsSet(raised)) => outcomes[Len(outcomes)].error = raised
    /\ \A k, m \in DOMAIN issued : issued[k] = issued[m] => k = m
    /\ \A c \in DOMAIN outcomes :
        /\ outcomes[c].at = "page" => \A k \in StatementsOf(c) : issued[k].kind = "page"
        /\ ~Ok(outcomes[c]) => outcomes[c].at \in {"page", "total"}

\* a second call whose page statement rejected, after a first that loaded
C10_Witness ==
    /\ Len(outcomes) = 2
    /\ Ok(outcomes[1])
    /\ outcomes[2].at = "page"
    /\ outcomes[2].error = Some("E2")
    /\ Len(issued) = 3

----------------------------------------------------------------------------
\* the controller has built a list from a body
Built == pc # "none" /\ list.kind = "Articles"

Numeric(o) == IsSet(ParseIntOf(o))

(* C11: a list built by the controller has limit 10 (offset 0) when the body   *)
(* holds no limit (offset) or one parseInt reads no number from, and else the  *)
(* very integer parseInt reads, whatever it is.                                *)
C11_DefaultsOrParsedAsGiven ==
    Built =>
        /\ list.limit = (IF Numeric(input.limit) THEN Val(ParseIntOf(input.limit)) ELSE ARTICLES_LIMIT)
        /\ list.offset = (IF Numeric(input.offset) THEN Val(ParseIntOf(input.offset)) ELSE 0)

----------------------------------------------------------------------------
LoadedTags == Loaded /\ list.kind = "Tags"

Unfiltered == ~IsSet(list.search) /\ \A f \in DOMAIN list.filters : ~Active(list, f)

(* C12: a tags list loaded with no filters, no search and the whole result on  *)
(* one page holds every tag once, each with articles equal to the number of    *)
(* different articles that carry the tag, 0 for a tag no article carries, and  *)
(* total is the number of tags.                                                *)
C12_EveryTagOnceWithItsArticles ==
    (LoadedTags /\ Unpaged /\ Unfiltered) =>
        /\ Len(list.data) = Cardinality(TagIds)
        /\ \A t \in TagIds :
            \E i \in DOMAIN list.data :
                /\ list.data[i].id = t
                /\ list.data[i].articles = Some(Cardinality(ArticlesOfTag(db, t)))
        /\ list.total = Some(Cardinality(TagIds))

\* a tag that two articles carry and a tag that no article carries, both in data
C12_Witness ==
    /\ LoadedTags /\ Unpaged /\ Unfiltered
    /\ \E i, j \in DOMAIN list.data :
        /\ list.data[i].articles = Some(0)
        /\ ArticlesOfTag(db, list.data[i].id) = {}
        /\ list.data[j].articles = Some(2)
    /\ list.total = Some(Len(list.data))

----------------------------------------------------------------------------
ClausesRead == clauses # NoClauses

AggregateFields(kind) == IF kind = "Articles" THEN {"answers", "votes"} ELSE {"articles"}

\* the column a filter on a field is put on
FilterColumn(kind, f) ==
    IF kind = "Tags" THEN TagsCols[f]
    ELSE CASE f = "author" -> ArticlesCols.userId
           [] f = "hubs" -> ArticlesCols.hubId
           [] f = "tags" -> ArticlesCols.tagId
           [] f = "createdAt" -> "DATE(Article.createdAt)"
           [] OTHER -> ArticlesCols[f]

\* the descriptor lists applied before aggregation
WhereLists(c) == <<c.where, c.userWhere, c.hubWhere, c.tagWhere>>

InList(descs, column) == \E i \in DOMAIN descs : descs[i].column = column

OncePerColumn(descs) == \A i, j \in DOMAIN descs : descs[i].column = descs[j].column => i = j

(* C13: a filter set on an aggregate (answers, votes; articles for tags) is a  *)
(* descriptor of having and of no list applied before aggregation; every other *)
(* filter set is a descriptor of a list applied before aggregation (where, or  *)
(* the clause of the join of the author, the hubs or the tags) and not of      *)
(* having; a filter not set is in no list, and no list holds a column twice.   *)
C13_AggregatesInHavingOthersInWhere ==
    ClausesRead =>
        /\ \A f \in DOMAIN list.filters :
            LET column == FilterColumn(list.kind, f)
                wanted == Cond(column, Val(list.filters[f]))
                before == \E k \in DOMAIN WhereLists(clauses) : InList(WhereLists(clauses)[k], column)
            IN  /\ (Active(list, f) /\ f \in AggregateFields(list.kind)) =>
                        /\ wanted \in Range(clauses.having)
                        /\ ~before
                /\ (Active(list, f) /\ f \notin AggregateFields(list.kind)) =>
                        /\ \E k \in DOMAIN WhereLists(clauses) : wanted \in Range(WhereLists(clauses)[k])
                        /\ ~InList(clauses.having, column)
                /\ ~Active(list, f) => ~before /\ ~InList(clauses.having, column)
        /\ OncePerColumn(clauses.having)
        /\ \A k \in DOMAIN WhereLists(clauses) : OncePerColumn(WhereLists(clauses)[k])

\* an articles list with a filter on votes and a filter on title, and search
C13_Witness ==
    /\ ClausesRead
    /\ list.kind = "Articles"
    /\ Active(list, "votes")
    /\ Active(list, "title")
    /\ IsSet(list.search)
    /\ Len(clauses.having) = 1
    /\ Len(clauses.where) = 2

----------------------------------------------------------------------------
\* the kinds of the statements a call handed to db.query, in order
KindsOf(call) ==
    LET ks == StatementsOf(call)
    IN  [i \in 1 .. Cardinality(ks) |->
            issued[CHOOSE k \in ks : Cardinality({m \in ks : m < k}) = i - 1].kind]

\* the rows the data setter was last handed are those of the page statement
RawIsPage == raw = PageRows(db, list)

\* what the data setter makes of the rows it was last handed
RawData == SetData(list, raw).data

LastOutcome == outcomes[Len(outcomes)]

(* C14: a call of setData() that returned handed two statements to db.query,   *)
(* the page statement and then the total statement; while the page statement   *)
(* runs the call has handed out only that one; the total statement is handed   *)
(* out with the rows of the page statement already assigned to data; and when  *)
(* the call returns data holds those entities and total is set.                *)
C14_PageThenTotalBothAwaited ==
    /\ \A c \in DOMAIN outcomes : Ok(outcomes[c]) =>
            /\ KindsOf(c) = <<"page", "total">>
            /\ outcomes[c].data = RawData
            /\ IsSet(outcomes[c].total)
    /\ pc = "page" => KindsOf(Len(outcomes) + 1) = <<"page">>
    /\ pc = "total" =>
            /\ KindsOf(Len(outcomes) + 1) = <<"page", "total">>
            /\ RawIsPage
            /\ list.data = RawData
    /\ Loaded =>
            /\ RawIsPage
            /\ list.data = LastOutcome.data
            /\ list.total = LastOutcome.total
            /\ list.total = ParseInt(TotalRows(db, list)[1].total)

\* two calls returned, four statements in all, the list holding entities and a total
C14_Witness ==
    /\ Len(outcomes) = 2
    /\ Ok(outcomes[1])
    /\ Ok(outcomes[2])
    /\ Len(issued) = 4
    /\ Len(list.data) >= 1
    /\ outcomes[2].total = Some(Len(list.data))

----------------------------------------------------------------------------
----------------------------------------------------------------------------
IdsInOrder(seq) == [i \in DOMAIN seq |-> seq[i].id]

\* the list with the whole result on one page
Whole(d, l) == [l EXCEPT !.offset = 0, !.limit = Cardinality(ArticleGroups(d, l)) + 1]

\* the articles that match, in the order the request asks for
AllInOrder(d, l) == IdsInOrder(ArticlesData(<<>>, ArticlesPage(d, Whole(d, l))))

(* C16: the data of a loaded articles list holds the articles at the places    *)
(* offset + 1 .. offset + limit of the ordered list of the articles that       *)
(* match, so min(limit, max(0, T - offset)) of them when T match, however many *)
(* hubs and tags an article has.                                               *)
C16_PageCountsArticles ==
    LoadedArticles =>
        IdsInOrder(list.data) = Paged(AllInOrder(db, list), list.offset, list.limit)

(* C17: every entity of a loaded articles list holds all the hubs and all the  *)
(* tags of its article that pass the filters of the joins, whatever the limit  *)
(* and the offset.                                                             *)
C17_PageKeepsWholeCollections ==
    LoadedArticles =>
        \A i \in DOMAIN list.data :
            LET a == list.data[i].id
            IN  /\ Ids(list.data[i].hubs) = {h \in db.hubs[a] : Passes(list, "hubs", h)}
                /\ Ids(list.data[i].tags) = {t \in db.tags[a] : Passes(list, "tags", t)}

----------------------------------------------------------------------------
\* what the list held when call c was entered
Before(c) == IF c = 1 THEN [data |-> <<>>, total |-> None] ELSE outcomes[c - 1]

(* C18: a call of setData() whose page statement rejected leaves data and      *)
(* total as they were when the call was entered; a call whose total statement  *)
(* rejected leaves in data the entities of the new page and total as it was    *)
(* when the call was entered; and the list holds just that once the call is    *)
(* over.                                                                       *)
C18_FailedCallLeavesOldOrNewData ==
    /\ \A c \in DOMAIN outcomes :
        /\ outcomes[c].at = "page" =>
                /\ outcomes[c].data = Before(c).data
                /\ outcomes[c].total = Before(c).total
        /\ outcomes[c].at = "total" =>
                /\ outcomes[c].data = RawData
                /\ outcomes[c].total = Before(c).total
    /\ (pc = "ready" /\ Len(outcomes) > 0) =>
            /\ list.data = LastOutcome.data
            /\ list.total = LastOutcome.total
            /\ LastOutcome.at = "total" => RawIsPage

\* the total statement of the first call rejected, leaving entities and no total, and
\* then the page statement of the second call rejected, leaving the same
C18_Witness ==
    /\ Len(outcomes) = 2
    /\ outcomes[1].at = "total"
    /\ Len(outcomes[1].data) >= 1
    /\ outcomes[1].total = None
    /\ outcomes[2].at = "page"
    /\ list.data = outcomes[1].data
    /\ list.total = None

====
